---- MODULE Spec2Model ----
(***************************************************************************)
(* Admission control, node selection and kill-query protocol of chproxy   *)
(* (src/scope.go).                                                         *)
(*                                                                         *)
(* Every queryCounter, the cluster cursor nextIdx and scopeId are uint32.  *)
(* A uint32 is kept as its two 16-bit halves [hi, lo], so that the wrap at *)
(* 2^32 is the wrap the hardware performs.                                 *)
(***************************************************************************)
EXTENDS Integers, Sequences, FiniteSets

\* ------------------------------------------------------------------ bounds

\* Number of concurrent requests (goroutines), each admitting one scope.
NumReq == 2
\* Ceilings (maxConcurrentQueries) are drawn from 0..MaxCeil.
MaxCeil == 2
\* Number of hosts of the cluster under concurrent admission.
NumHosts == 2

\* Largest cluster on which getHost and killQueries are checked on their own.
MaxHosts == 3

Users == {"u1", "u2"}
\* Both users are proxied as the one cluster user.
ClusterUsers == {"cu1"}
Ceilings == 0..MaxCeil

\* ------------------------------------------------------------------ uint32

\* 2^16: a uint32 is hi * Half + lo.
Half == 65536

U32(h, l) == [hi |-> h, lo |-> l]
Zero == U32(0, 0)
One == U32(0, 1)
\* ^uint32(0)
AllOnes == U32(Half - 1, Half - 1)
\* uint32(n) for 0 <= n < 2^31
FromNat(n) == U32(n \div Half, n % Half)

\* atomic.AddUint32's sum: x + d modulo 2^32, with the carry between halves.
AddUint32(x, d) ==
    LET s == x.lo + d.lo
    IN  [hi |-> (x.hi + d.hi + (s \div Half)) % Half, lo |-> s % Half]

\* a > b on uint32
Gt(a, b) == a.hi > b.hi \/ (a.hi = b.hi /\ a.lo > b.lo)
\* a < b on uint32
Lt(a, b) == Gt(b, a)

\* x % l on uint32, for 0 < l < 2^15:
\* (hi * 2^16 + lo) % l = ((hi % l) * (2^16 % l) + lo % l) % l
ModU32(x, l) == (((x.hi % l) * (Half % l)) + (x.lo % l)) % l

\* queryCounter.inc: the new value
QcInc(v) == AddUint32(v, One)
\* Mutant of QcDec: adds ^uint32(1), which takes 2 off.
QcDecTwo(v) == AddUint32(v, U32(Half - 1, Half - 2))

\* queryCounter.dec: adds ^uint32(0)
QcDec(v) == AddUint32(v, AllOnes)

\* ------------------------------------------------------------------ state

VARIABLES
    maxU,       \* user.maxConcurrentQueries, per user
    maxCU,      \* clusterUser.maxConcurrentQueries, per cluster user
    userCnt,    \* user.queryCounter.value
    cuCnt,      \* clusterUser.queryCounter.value
    hostCnt,    \* host.queryCounter.value, per index of cluster.hosts
    nextIdx,    \* cluster.nextIdx
    scopeId,    \* the package variable scopeId
    pc,         \* where each request stands
    scope,      \* each request's scope: user, clusterUser, host
    loc,        \* locals of getHost (idx, i, idle, idleN) and of inc (uq, cq)
    err,        \* what scope.inc returns (or is about to return)
    incs,       \* history: atomic increments each request has performed
    decs,       \* history: atomic decrements each request has performed
    start,      \* history: the counters as they were at Init
    picked,     \* history: the hosts returned by successive getHost calls
    killQueryUserName,  \* cluster.killQueryUserName
    hostState,  \* environment: how each host answers a kill request
    kpc,        \* where the killQueries call stands
    ki,         \* killQueries: index of the host the loop is at
    sent,       \* history: hosts client.Do was called for, in order
    kerr        \* what killQueries returns

vars == <<maxU, maxCU, userCnt, cuCnt, hostCnt, nextIdx, scopeId,
          pc, scope, loc, err, incs, decs, start, picked,
          killQueryUserName, hostState, kpc, ki, sent, kerr>>

killVars == <<killQueryUserName, hostState, kpc, ki, sent, kerr>>
config == <<maxU, maxCU, killVars>>
history == <<incs, decs, start, picked>>

\* The requests: goroutines of the handler, each admitting one scope.
Requests == DOMAIN pc

\* len(c.hosts)
NHosts == Cardinality(DOMAIN hostCnt)

NoScope == [user |-> "u1", clusterUser |-> "cu1", host |-> 0]
NoLoc == [idx |-> 0, i |-> 0, idle |-> 0, idleN |-> Zero, uq |-> Zero, cq |-> Zero]
NoErr == [kind |-> "nil", limit |-> 0]
NoOps == [user |-> 0, clusterUser |-> 0, host |-> 0]
\* http.StatusOK
StatusOK == "200"
\* killQueries' nil error
NoKillErr == [kind |-> "nil", host |-> 0]

\* ------------------------------------------------------------------ Init

\* n requests, none of which has called newScope yet.
InitRequests(n) ==
    /\ pc = [r \in 1..n |-> "idle"]
    /\ scope = [r \in 1..n |-> NoScope]
    /\ loc = [r \in 1..n |-> NoLoc]
    /\ err = [r \in 1..n |-> NoErr]
    /\ incs = [r \in 1..n |-> NoOps]
    /\ decs = [r \in 1..n |-> NoOps]

\* No killQueries call is under way and none is modelled.
InitNoKill ==
    /\ killQueryUserName = ""
    /\ hostState = [h \in DOMAIN hostCnt |-> StatusOK]
    /\ kpc = "idle"
    /\ ki = 0
    /\ sent = <<>>
    /\ kerr = NoKillErr

\* After construction: every counter is 0; the cursor and scopeId hold a
\* clock value, here the one from which the next advance wraps.  Requests
\* come from user u1, whose ceiling and whose cluster user's ceiling are any
\* of Ceilings.
Init ==
    /\ maxU \in {f \in [Users -> Ceilings] : f["u2"] = 0}
    /\ maxCU \in [ClusterUsers -> Ceilings]
    /\ userCnt = [u \in Users |-> Zero]
    /\ cuCnt = [c \in ClusterUsers |-> Zero]
    /\ hostCnt = [h \in 0..(NumHosts - 1) |-> Zero]
    /\ nextIdx = AllOnes
    /\ scopeId = AllOnes
    /\ InitRequests(NumReq)
    /\ start = [user |-> userCnt, clusterUser |-> cuCnt, host |-> hostCnt]
    /\ picked = <<>>
    /\ InitNoKill

\* ------------------------------------------------------------------ newScope

\* newScope: scopeId is advanced, then c.getHost() is called.
NewScope(r, u, cu) ==
    /\ pc[r] = "idle"
    /\ scopeId' = AddUint32(scopeId, One)
    /\ scope' = [scope EXCEPT ![r] = [user |-> u, clusterUser |-> cu, host |-> 0]]
    /\ pc' = [pc EXCEPT ![r] = "getHost"]
    /\ UNCHANGED <<config, userCnt, cuCnt, hostCnt, nextIdx, loc, err, history>>

\* ------------------------------------------------------------------ getHost

\* getHost returns host h to newScope, which stores it in scope.host.
GetHostReturn(r, h) ==
    /\ scope' = [scope EXCEPT ![r].host = h]
    /\ loc' = [loc EXCEPT ![r] = NoLoc]
    /\ pc' = [pc EXCEPT ![r] = "incUser"]

\* Mutant of GetHostNext: the loop runs to the end of c.hosts and does not
\* wrap around to the hosts before idx.
GetHostNextNoWrap(r, i, idle, idleN) ==
    IF i = loc[r].idx \/ i = 0
    THEN GetHostReturn(r, idle)
    ELSE /\ loc' = [loc EXCEPT ![r].i = i, ![r].idle = idle, ![r].idleN = idleN]
         /\ pc' = [pc EXCEPT ![r] = "scan"]
         /\ UNCHANGED scope

\* Mutant of GetHostNext: the loop has no test and goes round for ever
\* unless it meets a host of load 0.
GetHostNextNoStop(r, i, idle, idleN) ==
    /\ loc' = [loc EXCEPT ![r].i = i, ![r].idle = idle, ![r].idleN = idleN]
    /\ pc' = [pc EXCEPT ![r] = "scan"]
    /\ UNCHANGED scope

\* The for loop's test i != idx, with i the next index to read.
GetHostNext(r, i, idle, idleN) ==
    IF i = loc[r].idx
    THEN GetHostReturn(r, idle)
    ELSE /\ loc' = [loc EXCEPT ![r].i = i, ![r].idle = idle, ![r].idleN = idleN]
         /\ pc' = [pc EXCEPT ![r] = "scan"]
         /\ UNCHANGED scope

\* idx := atomic.AddUint32(&c.nextIdx, 1); idx = idx % l
GetHostAdvance(r) ==
    /\ pc[r] = "getHost"
    /\ nextIdx' = AddUint32(nextIdx, One)
    /\ loc' = [loc EXCEPT ![r].idx = ModU32(nextIdx', NHosts)]
    /\ pc' = [pc EXCEPT ![r] = "first"]
    /\ UNCHANGED <<config, userCnt, cuCnt, hostCnt, scopeId, scope, err, history>>

\* idle := c.hosts[idx]; idleN := idle.runningQueries(); the fast path
\* returns idle when idleN is 0, otherwise the loop starts at (idx + 1) % l.
GetHostFirst(r) ==
    /\ pc[r] = "first"
    /\ LET idx == loc[r].idx
           n == hostCnt[idx]
       IN  IF n = Zero
           THEN GetHostReturn(r, idx)
           ELSE GetHostNext(r, (idx + 1) % NHosts, idx, n)
    /\ UNCHANGED <<config, userCnt, cuCnt, hostCnt, nextIdx, scopeId, err, history>>

\* Mutant of GetHostScan: the comparison is n <= idleN, so the last host
\* with the least load wins instead of the first.
GetHostScanLastWins(r) ==
    /\ pc[r] = "scan"
    /\ LET i == loc[r].i
           n == hostCnt[i]
       IN  IF n = Zero
           THEN GetHostReturn(r, i)
           ELSE IF Lt(n, loc[r].idleN) \/ n = loc[r].idleN
                THEN GetHostNext(r, (i + 1) % NHosts, i, n)
                ELSE GetHostNext(r, (i + 1) % NHosts, loc[r].idle, loc[r].idleN)
    /\ UNCHANGED <<config, userCnt, cuCnt, hostCnt, nextIdx, scopeId, err, history>>

\* One pass of the loop body: h := c.hosts[i]; n := h.runningQueries().
GetHostScan(r) ==
    /\ pc[r] = "scan"
    /\ LET i == loc[r].i
           n == hostCnt[i]
       IN  IF n = Zero
           THEN GetHostReturn(r, i)
           ELSE IF Lt(n, loc[r].idleN)
                THEN GetHostNext(r, (i + 1) % NHosts, i, n)
                ELSE GetHostNext(r, (i + 1) % NHosts, loc[r].idle, loc[r].idleN)
    /\ UNCHANGED <<config, userCnt, cuCnt, hostCnt, nextIdx, scopeId, err, history>>

\* ------------------------------------------------------------------ scope.inc

\* Mutant of LimitErr: one query more than the ceiling is let through.
LimitErrLoose(u, cu, uq, cq) ==
    LET e == IF maxU[u] > 0 /\ Gt(uq, FromNat(maxU[u] + 1))
             THEN [kind |-> "user", limit |-> maxU[u]]
             ELSE NoErr
    IN  IF maxCU[cu] > 0 /\ Gt(cq, FromNat(maxCU[cu] + 1))
        THEN [kind |-> "clusterUser", limit |-> maxCU[cu]]
        ELSE e

\* Mutant of LimitErr: a count equal to the ceiling is refused (>= for >).
LimitErrStrict(u, cu, uq, cq) ==
    LET e == IF maxU[u] > 0 /\ ~Lt(uq, FromNat(maxU[u]))
             THEN [kind |-> "user", limit |-> maxU[u]]
             ELSE NoErr
    IN  IF maxCU[cu] > 0 /\ ~Lt(cq, FromNat(maxCU[cu]))
        THEN [kind |-> "clusterUser", limit |-> maxCU[cu]]
        ELSE e

\* Mutant of LimitErr: the tests maxConcurrentQueries > 0 are missing.
LimitErrNoZeroTest(u, cu, uq, cq) ==
    LET e == IF Gt(uq, FromNat(maxU[u]))
             THEN [kind |-> "user", limit |-> maxU[u]]
             ELSE NoErr
    IN  IF Gt(cq, FromNat(maxCU[cu]))
        THEN [kind |-> "clusterUser", limit |-> maxCU[cu]]
        ELSE e

\* Mutant of LimitErr: the two tests are in the other order, so the user's
\* error overwrites the cluster user's.
LimitErrUserLast(u, cu, uq, cq) ==
    LET e == IF maxCU[cu] > 0 /\ Gt(cq, FromNat(maxCU[cu]))
             THEN [kind |-> "clusterUser", limit |-> maxCU[cu]]
             ELSE NoErr
    IN  IF maxU[u] > 0 /\ Gt(uq, FromNat(maxU[u]))
        THEN [kind |-> "user", limit |-> maxU[u]]
        ELSE e

\* The two ceiling tests of scope.inc, in their order: the second overwrites
\* the error of the first. "nil" is the nil error.
LimitErr(u, cu, uq, cq) ==
    LET e == IF maxU[u] > 0 /\ Gt(uq, FromNat(maxU[u]))
             THEN [kind |-> "user", limit |-> maxU[u]]
             ELSE NoErr
    IN  IF maxCU[cu] > 0 /\ Gt(cq, FromNat(maxCU[cu]))
        THEN [kind |-> "clusterUser", limit |-> maxCU[cu]]
        ELSE e

\* Mutant of ScopeIncUser: s.host.inc() comes first in scope.inc, right
\* before s.user.inc().
ScopeIncUserHostFirst(r) ==
    /\ pc[r] = "incUser"
    /\ hostCnt' = [hostCnt EXCEPT ![scope[r].host] = QcInc(@)]
    /\ userCnt' = [userCnt EXCEPT ![scope[r].user] = QcInc(@)]
    /\ loc' = [loc EXCEPT ![r].uq = userCnt'[scope[r].user]]
    /\ incs' = [incs EXCEPT ![r].user = @ + 1, ![r].host = @ + 1]
    /\ pc' = [pc EXCEPT ![r] = "incClusterUser"]
    /\ UNCHANGED <<config, cuCnt, nextIdx, scopeId, scope, err, decs, start, picked>>

\* uq := s.user.inc()
ScopeIncUser(r) ==
    /\ pc[r] = "incUser"
    /\ userCnt' = [userCnt EXCEPT ![scope[r].user] = QcInc(@)]
    /\ loc' = [loc EXCEPT ![r].uq = userCnt'[scope[r].user]]
    /\ incs' = [incs EXCEPT ![r].user = @ + 1]
    /\ pc' = [pc EXCEPT ![r] = "incClusterUser"]
    /\ UNCHANGED <<config, cuCnt, hostCnt, nextIdx, scopeId, scope, err, decs, start, picked>>

\* cq := s.clusterUser.inc()
ScopeIncClusterUser(r) ==
    /\ pc[r] = "incClusterUser"
    /\ cuCnt' = [cuCnt EXCEPT ![scope[r].clusterUser] = QcInc(@)]
    /\ loc' = [loc EXCEPT ![r].cq = cuCnt'[scope[r].clusterUser]]
    /\ incs' = [incs EXCEPT ![r].clusterUser = @ + 1]
    /\ pc' = [pc EXCEPT ![r] = "incHost"]
    /\ UNCHANGED <<config, userCnt, hostCnt, nextIdx, scopeId, scope, err, decs, start, picked>>

\* Mutant of ScopeIncHost: on an error inc returns it without calling s.dec().
ScopeIncHostNoRollback(r) ==
    /\ pc[r] = "incHost"
    /\ hostCnt' = [hostCnt EXCEPT ![scope[r].host] = QcInc(@)]
    /\ incs' = [incs EXCEPT ![r].host = @ + 1]
    /\ err' = [err EXCEPT ![r] =
                  LimitErr(scope[r].user, scope[r].clusterUser, loc[r].uq, loc[r].cq)]
    /\ loc' = [loc EXCEPT ![r] = NoLoc]
    /\ pc' = [pc EXCEPT ![r] = IF err'[r] = NoErr THEN "admitted" ELSE "failed"]
    /\ UNCHANGED <<config, userCnt, cuCnt, nextIdx, scopeId, scope, decs, start, picked>>

\* Mutant of ScopeIncHost: s.host.inc() is missing.
ScopeIncHostSkipped(r) ==
    /\ pc[r] = "incHost"
    /\ err' = [err EXCEPT ![r] =
                  LimitErr(scope[r].user, scope[r].clusterUser, loc[r].uq, loc[r].cq)]
    /\ loc' = [loc EXCEPT ![r] = NoLoc]
    /\ pc' = [pc EXCEPT ![r] = IF err'[r] = NoErr THEN "admitted" ELSE "rollback"]
    /\ UNCHANGED <<config, userCnt, cuCnt, hostCnt, nextIdx, scopeId, scope, incs,
                   decs, start, picked>>

\* s.host.inc(), then the ceiling tests: on an error inc goes on to call
\* s.dec() and return the error, otherwise it returns nil.
ScopeIncHost(r) ==
    /\ pc[r] = "incHost"
    /\ hostCnt' = [hostCnt EXCEPT ![scope[r].host] = QcInc(@)]
    /\ incs' = [incs EXCEPT ![r].host = @ + 1]
    /\ err' = [err EXCEPT ![r] =
                  LimitErr(scope[r].user, scope[r].clusterUser, loc[r].uq, loc[r].cq)]
    /\ loc' = [loc EXCEPT ![r] = NoLoc]
    /\ pc' = [pc EXCEPT ![r] = IF err'[r] = NoErr THEN "admitted" ELSE "rollback"]
    /\ UNCHANGED <<config, userCnt, cuCnt, nextIdx, scopeId, scope, decs, start, picked>>

\* ------------------------------------------------------------------ scope.dec

\* s.host.dec(): the first step of scope.dec, called by scope.inc on an
\* error ("rollback") or by the request handler to release an admitted scope.
ScopeDecHost(r) ==
    /\ pc[r] \in {"rollback", "admitted"}
    /\ hostCnt' = [hostCnt EXCEPT ![scope[r].host] = QcDec(@)]
    /\ decs' = [decs EXCEPT ![r].host = @ + 1]
    /\ pc' = [pc EXCEPT ![r] = "decUser"]
    /\ UNCHANGED <<config, userCnt, cuCnt, nextIdx, scopeId, scope, loc, err, incs, start, picked>>

\* s.user.dec()
ScopeDecUser(r) ==
    /\ pc[r] = "decUser"
    /\ userCnt' = [userCnt EXCEPT ![scope[r].user] = QcDec(@)]
    /\ decs' = [decs EXCEPT ![r].user = @ + 1]
    /\ pc' = [pc EXCEPT ![r] = "decClusterUser"]
    /\ UNCHANGED <<config, cuCnt, hostCnt, nextIdx, scopeId, scope, loc, err, incs, start, picked>>

\* Mutant of ScopeDecClusterUser: s.clusterUser.dec() is missing.
ScopeDecClusterUserSkipped(r) ==
    /\ pc[r] = "decClusterUser"
    /\ pc' = [pc EXCEPT ![r] = IF err[r] = NoErr THEN "released" ELSE "failed"]
    /\ UNCHANGED <<config, userCnt, cuCnt, hostCnt, nextIdx, scopeId, scope, loc, err,
                   incs, decs, start, picked>>

\* s.clusterUser.dec(); scope.dec returns: into scope.inc, which returns its
\* error ("failed"), or to the handler that released the scope ("released").
ScopeDecClusterUser(r) ==
    /\ pc[r] = "decClusterUser"
    /\ cuCnt' = [cuCnt EXCEPT ![scope[r].clusterUser] = QcDec(@)]
    /\ decs' = [decs EXCEPT ![r].clusterUser = @ + 1]
    /\ pc' = [pc EXCEPT ![r] = IF err[r] = NoErr THEN "released" ELSE "failed"]
    /\ UNCHANGED <<config, userCnt, hostCnt, nextIdx, scopeId, scope, loc, err, incs, start, picked>>

\* ------------------------------------------------------------------ killQueries

\* How a host answers: NewRequest cannot parse its address ("unparsable"),
\* client.Do fails ("unreachable"), or it responds with a status code.
HostStates == {"unparsable", "unreachable", "200", "500"}
\* killQueries returns e.
KillReturn(e) ==
    /\ kerr' = e
    /\ kpc' = "done"
    /\ UNCHANGED ki

\* Mutant of KillStart: the test of killQueryUserName is missing.
KillStartNoTest ==
    /\ kpc = "idle"
    /\ kpc' = "loop"
    /\ ki' = 0
    /\ UNCHANGED kerr
    /\ UNCHANGED <<maxU, maxCU, userCnt, cuCnt, hostCnt, nextIdx, scopeId,
                   pc, scope, loc, err, history, killQueryUserName, hostState, sent>>

\* The test of killQueryUserName; with a name set, the query is built and
\* the loop over c.hosts entered.
KillStart ==
    /\ kpc = "idle"
    /\ IF killQueryUserName = ""
       THEN KillReturn(NoKillErr)
       ELSE /\ kpc' = "loop"
            /\ ki' = 0
            /\ UNCHANGED kerr
    /\ UNCHANGED <<maxU, maxCU, userCnt, cuCnt, hostCnt, nextIdx, scopeId,
                   pc, scope, loc, err, history, killQueryUserName, hostState, sent>>

\* Mutant of KillHost: best effort, the loop goes on after a host that failed
\* and the last error is returned.
KillHostBestEffort ==
    /\ kpc = "loop"
    /\ IF ki = NHosts
       THEN /\ kpc' = "done"
            /\ UNCHANGED <<ki, kerr, sent>>
       ELSE /\ ki' = ki + 1
            /\ kpc' = kpc
            /\ IF hostState[ki] = "unparsable"
               THEN kerr' = [kind |-> "create", host |-> ki] /\ UNCHANGED sent
               ELSE /\ sent' = Append(sent, ki)
                    /\ kerr' = IF hostState[ki] = "unreachable"
                               THEN [kind |-> "execute", host |-> ki]
                               ELSE IF hostState[ki] # StatusOK
                               THEN [kind |-> "status", host |-> ki]
                               ELSE kerr
    /\ UNCHANGED <<maxU, maxCU, userCnt, cuCnt, hostCnt, nextIdx, scopeId,
                   pc, scope, loc, err, history, killQueryUserName, hostState>>

\* One pass of the loop over c.hosts (or its end): http.NewRequest, then
\* client.Do, then the test of resp.StatusCode.
KillHost ==
    /\ kpc = "loop"
    /\ IF ki = NHosts
       THEN KillReturn(NoKillErr) /\ UNCHANGED sent
       ELSE IF hostState[ki] = "unparsable"
       THEN KillReturn([kind |-> "create", host |-> ki]) /\ UNCHANGED sent
       ELSE /\ sent' = Append(sent, ki)
            /\ IF hostState[ki] = "unreachable"
               THEN KillReturn([kind |-> "execute", host |-> ki])
               ELSE IF hostState[ki] # StatusOK
               THEN KillReturn([kind |-> "status", host |-> ki])
               ELSE /\ ki' = ki + 1
                    /\ UNCHANGED <<kpc, kerr>>
    /\ UNCHANGED <<maxU, maxCU, userCnt, cuCnt, hostCnt, nextIdx, scopeId,
                   pc, scope, loc, err, history, killQueryUserName, hostState>>

\* ------------------------------------------------------------------ Spec

\* One step of scope.inc, scope.dec or getHost by request r.
Step(r) ==
    \/ GetHostAdvance(r)
    \/ GetHostFirst(r)
    \/ GetHostScan(r)
    \/ ScopeIncUser(r)
    \/ ScopeIncClusterUser(r)
    \/ ScopeIncHost(r)
    \/ ScopeDecHost(r)
    \/ ScopeDecUser(r)
    \/ ScopeDecClusterUser(r)

\* The handler calls newScope for request r with user u and cluster user cu.
\* Requests are interchangeable: they are numbered in the order in which
\* they call newScope.
Admit(r, u, cu) ==
    /\ \A q \in Requests : q < r => pc[q] # "idle"
    /\ NewScope(r, u, cu)

Next ==
    \E r \in Requests :
        \/ Admit(r, "u1", "cu1")
        \/ Step(r)

\* NumReq requests admitted and released concurrently, balanced: release once
\* per admitted scope, never for a failed one.
Spec == Init /\ [][Next]_vars

\* ------------------------------------------------------------------ scenario: three admits

\* Every admit has returned: nil or its error.
AdmitReturned(r) ==
    \/ pc[r] \in {"admitted", "failed", "released"}
    \/ pc[r] \in {"decUser", "decClusterUser"} /\ err[r] = NoErr

InitThree ==
    /\ maxU = [u \in Users |-> IF u = "u1" THEN 2 ELSE 0]
    /\ maxCU = [c \in ClusterUsers |-> 0]
    /\ userCnt = [u \in Users |-> Zero]
    /\ cuCnt = [c \in ClusterUsers |-> Zero]
    /\ hostCnt = [h \in 0..(NumHosts - 1) |-> Zero]
    /\ nextIdx = AllOnes
    /\ scopeId = AllOnes
    /\ InitRequests(3)
    /\ start = [user |-> userCnt, clusterUser |-> cuCnt, host |-> hostCnt]
    /\ picked = <<>>
    /\ InitNoKill

\* The handlers release only once all three admits have returned.
NextThree ==
    \E r \in Requests :
        \/ Admit(r, "u1", "cu1")
        \/ /\ pc[r] = "admitted" => \A q \in Requests : AdmitReturned(q)
           /\ Step(r)

\* Three concurrent admits on user u1 (maxConcurrentQueries 2, cluster user
\* unlimited), released afterwards.
SpecThree == InitThree /\ [][NextThree]_vars

\* ------------------------------------------------------------------ one admit, one release

\* Counter values a round trip starts from: around 0, around a ceiling,
\* at a carry between the halves and at the wrap.
UserStarts == {Zero, One, AllOnes}
HostStarts == {Zero, U32(0, Half - 1), AllOnes}

InitRoundTrip ==
    /\ maxU \in [Users -> Ceilings]
    /\ maxCU \in [ClusterUsers -> Ceilings]
    /\ userCnt \in [Users -> UserStarts]
    /\ cuCnt \in [ClusterUsers -> UserStarts]
    /\ hostCnt \in [0..(NumHosts - 1) -> HostStarts]
    /\ nextIdx = AllOnes
    /\ scopeId = AllOnes
    /\ InitRequests(1)
    /\ start = [user |-> userCnt, clusterUser |-> cuCnt, host |-> hostCnt]
    /\ picked = <<>>
    /\ InitNoKill

NextRoundTrip ==
    \E r \in Requests :
        \/ \E u \in Users, cu \in ClusterUsers : Admit(r, u, cu)
        \/ Step(r)

\* A single request: admit, then release if admitted, nothing in between.
SpecRoundTrip == InitRoundTrip /\ [][NextRoundTrip]_vars

\* ------------------------------------------------------------------ getHost alone

\* Loads that stay as they are while getHost is called.
Loads == {Zero, One, FromNat(2), AllOnes}
\* Clock values of nextIdx: small ones, a carry between the halves, and
\* those from which one of the next calls wraps.
CursorSeeds == {Zero, One, U32(0, Half - 1)}
                   \cup {U32(Half - 1, Half - k) : k \in 1..(MaxHosts + 1)}

InitSelect ==
    /\ maxU = [u \in Users |-> 0]
    /\ maxCU = [c \in ClusterUsers |-> 0]
    /\ userCnt = [u \in Users |-> Zero]
    /\ cuCnt = [c \in ClusterUsers |-> Zero]
    /\ \E n \in 1..MaxHosts : hostCnt \in [0..(n - 1) -> Loads]
    /\ nextIdx \in CursorSeeds
    /\ scopeId = AllOnes
    /\ pc = [r \in {1} |-> "getHost"]
    /\ scope = [r \in {1} |-> NoScope]
    /\ loc = [r \in {1} |-> NoLoc]
    /\ err = [r \in {1} |-> NoErr]
    /\ incs = [r \in {1} |-> NoOps]
    /\ decs = [r \in {1} |-> NoOps]
    /\ start = [user |-> userCnt, clusterUser |-> cuCnt, host |-> hostCnt]
    /\ picked = <<>>
    /\ InitNoKill

\* The caller notes the host getHost returned and, until it has called it
\* len(c.hosts) times, calls it again.
SelectAgain(r) ==
    /\ pc[r] = "incUser"
    /\ picked' = Append(picked, scope[r].host)
    /\ pc' = [pc EXCEPT ![r] = IF Len(picked') < NHosts THEN "getHost" ELSE "done"]
    /\ UNCHANGED <<config, userCnt, cuCnt, hostCnt, nextIdx, scopeId, scope, loc,
                   err, incs, decs, start>>

NextSelect ==
    \E r \in Requests :
        \/ GetHostAdvance(r)
        \/ GetHostFirst(r)
        \/ GetHostScan(r)
        \/ SelectAgain(r)

\* len(c.hosts) consecutive getHost calls on a cluster whose loads stay put.
SpecSelect == InitSelect /\ [][NextSelect]_vars

\* ------------------------------------------------------------------ killQueries alone

InitKill ==
    /\ maxU = [u \in Users |-> 0]
    /\ maxCU = [c \in ClusterUsers |-> 0]
    /\ userCnt = [u \in Users |-> Zero]
    /\ cuCnt = [c \in ClusterUsers |-> Zero]
    /\ \E n \in 1..MaxHosts :
          /\ hostCnt = [h \in 0..(n - 1) |-> Zero]
          /\ hostState \in [0..(n - 1) -> HostStates]
    /\ nextIdx = AllOnes
    /\ scopeId = AllOnes
    /\ InitRequests(1)
    /\ start = [user |-> userCnt, clusterUser |-> cuCnt, host |-> hostCnt]
    /\ picked = <<>>
    /\ killQueryUserName \in {"", "default"}
    /\ kpc = "idle"
    /\ ki = 0
    /\ sent = <<>>
    /\ kerr = NoKillErr

NextKill == KillStart \/ KillHost

\* One killQueries call on a cluster whose hosts answer as hostState says.
SpecKill == InitKill /\ [][NextKill]_vars

\* ------------------------------------------------------------------ properties

\* Request r is inside an admit: newScope or scope.inc has not yet returned
\* (scope.dec called from scope.inc, the rollback, included).
InAdmit(r) ==
    \/ pc[r] \in {"getHost", "first", "scan", "incUser", "incClusterUser",
                  "incHost", "rollback"}
    \/ pc[r] \in {"decUser", "decClusterUser"} /\ err[r] # NoErr

\* The requests whose scope has incremented counter x of kind f (user,
\* clusterUser or host) and not yet decremented it.
Holders(f, x) ==
    {r \in Requests : scope[r][f] = x /\ incs[r][f] - decs[r][f] = 1}

\* Every counter is its initial value plus one for each request that has
\* incremented and not decremented it; no request is ahead with decrements
\* or two increments ahead.
CountersAccountFor ==
    /\ \A r \in Requests : \A f \in {"user", "clusterUser", "host"} :
          incs[r][f] - decs[r][f] \in {0, 1}
    /\ \A u \in Users :
          userCnt[u] = AddUint32(start.user[u], FromNat(Cardinality(Holders("user", u))))
    /\ \A c \in ClusterUsers :
          cuCnt[c] = AddUint32(start.clusterUser[c],
                               FromNat(Cardinality(Holders("clusterUser", c))))
    /\ \A h \in DOMAIN hostCnt :
          hostCnt[h] = AddUint32(start.host[h], FromNat(Cardinality(Holders("host", h))))

OnceEach == [user |-> 1, clusterUser |-> 1, host |-> 1]

\* C1: a successful admit (newScope, scope.inc returning nil) followed by
\* release (scope.dec), with nothing in between, leaves every user's,
\* every cluster user's and every host's counter at its value before the
\* admit, whatever those values and the ceilings were.
C1_AdmitReleaseRoundTrip ==
    \A r \in Requests :
        pc[r] = "released" =>
            /\ userCnt = start.user
            /\ cuCnt = start.clusterUser
            /\ hostCnt = start.host

\* C1's case: a released scope whose user counter started at 2^32 - 1 (the
\* increment wrapped) under a ceiling, on a host that was loaded.
C1_Witness ==
    \E r \in Requests :
        /\ pc[r] = "released"
        /\ start.user[scope[r].user] = AllOnes
        /\ maxU[scope[r].user] > 0
        /\ start.host[scope[r].host] # Zero

\* C2: an admit that failed with a limit error has, when it returns,
\* incremented and decremented the host's, the user's and the cluster user's
\* counter exactly once each, and the counters hold exactly what the other
\* requests account for, under every interleaving.
C2_FailedAdmitRolledBack ==
    /\ \A r \in Requests :
          pc[r] = "failed" => incs[r] = OnceEach /\ decs[r] = OnceEach
    /\ CountersAccountFor

\* C2's case: an admit has failed while another request holds its scope.
C2_Witness ==
    \E r, q \in Requests :
        /\ pc[r] = "failed"
        /\ pc[q] = "admitted"
        /\ userCnt[scope[q].user] = One

\* C3: whenever no admit is in flight, the counter of a user or cluster user
\* with ceiling C > 0 is at most C.
C3_WithinCeilingWhenQuiet ==
    (\A r \in Requests : ~InAdmit(r)) =>
        /\ \A u \in Users :
              maxU[u] > 0 => ~Gt(userCnt[u], FromNat(maxU[u]))
        /\ \A c \in ClusterUsers :
              maxCU[c] > 0 => ~Gt(cuCnt[c], FromNat(maxCU[c]))

\* C3's case: no admit in flight, an admit has been refused and rolled back,
\* and the counter of a limited cluster user stands at its ceiling.
C3_Witness ==
    /\ \A r \in Requests : ~InAdmit(r)
    /\ \E r \in Requests : pc[r] = "failed" /\ err[r].kind = "clusterUser"
    /\ \E c \in ClusterUsers : maxCU[c] > 0 /\ cuCnt[c] = FromNat(maxCU[c])

\* C4: three concurrent admits on a user with ceiling 2 (cluster user
\* unlimited), no release before all three have returned: exactly one
\* returns a limit error and two succeed; once the two are released the
\* user's counter is 0.
C4_ThreeAdmitsOneRefused ==
    /\ (\A r \in Requests : AdmitReturned(r)) =>
          /\ Cardinality({r \in Requests : err[r] # NoErr}) = 1
          /\ Cardinality({r \in Requests : err[r] = NoErr}) = 2
          /\ \A r \in Requests : err[r] # NoErr => err[r] = [kind |-> "user", limit |-> 2]
    /\ (\A r \in Requests : pc[r] \in {"released", "failed"}) =>
          userCnt["u1"] = Zero

\* C4's case: all three admits have returned and the two admitted scopes
\* have been released.
C4_Witness ==
    /\ Cardinality(Requests) = 3
    /\ \A r \in Requests : pc[r] \in {"released", "failed"}
    /\ \E r \in Requests : pc[r] = "failed"

\* C5: with the user's and the cluster user's ceiling both 0, no admit
\* returns (or is about to return) an error.
C5_UnlimitedNeverFails ==
    \A r \in Requests :
        (maxU[scope[r].user] = 0 /\ maxCU[scope[r].clusterUser] = 0) =>
            err[r] = NoErr /\ pc[r] \notin {"rollback", "failed"}

\* C5's case: both ceilings 0 and every request admitted at the same time.
C5_Witness ==
    /\ maxU["u1"] = 0
    /\ maxCU["cu1"] = 0
    /\ \A r \in Requests : pc[r] = "admitted"
    /\ userCnt["u1"] = FromNat(Cardinality(Requests))

\* C6: under balanced use no step decrements a counter that reads 0 (no
\* counter wraps from 0 to 2^32 - 1).
C6_NoDecrementAtZero ==
    [][/\ \A u \in Users : userCnt[u] = Zero => userCnt'[u] # AllOnes
       /\ \A c \in ClusterUsers : cuCnt[c] = Zero => cuCnt'[c] # AllOnes
       /\ \A h \in DOMAIN hostCnt : hostCnt[h] = Zero => hostCnt'[h] # AllOnes]_vars

\* C6's case: a scope has been released and an admit rolled back, and every
\* counter is back at 0.
C6_Witness ==
    /\ \E r, q \in Requests : pc[r] = "released" /\ pc[q] = "failed"
    /\ \A u \in Users : userCnt[u] = Zero
    /\ \A c \in ClusterUsers : cuCnt[c] = Zero
    /\ \A h \in DOMAIN hostCnt : hostCnt[h] = Zero

\* C7: with loads that do not change, if some host has load 0 then every
\* host getHost returns has load 0, whatever the cursor and the cluster size.
C7_ReturnsIdleHost ==
    (\E h \in DOMAIN hostCnt : hostCnt[h] = Zero) =>
        /\ \A k \in 1..Len(picked) : hostCnt[picked[k]] = Zero
        /\ \A r \in Requests : pc[r] = "incUser" => hostCnt[scope[r].host] = Zero

\* C7's case: a cluster of MaxHosts hosts of which exactly one is idle,
\* the last in scan order of some call; getHost has been called once per host.
C7_Witness ==
    /\ NHosts = MaxHosts
    /\ Len(picked) = NHosts
    /\ Cardinality({h \in DOMAIN hostCnt : hostCnt[h] = Zero}) = 1

\* C8: on a cluster whose hosts all have and keep load 0, len(c.hosts)
\* consecutive getHost calls return pairwise distinct hosts, for every
\* initial value of the cursor.
C8_IdleRoundRobinDistinct ==
    ((\A h \in DOMAIN hostCnt : hostCnt[h] = Zero) /\ Len(picked) = NHosts) =>
        Cardinality({picked[k] : k \in 1..Len(picked)}) = NHosts

\* The hosts before host h, in cluster order.
HostsBefore(h) == [k \in 1..h |-> k - 1]
\* The hosts up to and including host h, in cluster order.
HostsUpTo(h) == [k \in 1..(h + 1) |-> k - 1]
\* Hosts that fail a kill request sent to them: transport error or a
\* status other than 200.
FailingHosts ==
    {h \in DOMAIN hostState : hostState[h] \notin {StatusOK, "unparsable"}}
\* Hosts at which the loop of killQueries stops: those, and the hosts for
\* which no request can be created.
StoppingHosts == {h \in DOMAIN hostState : hostState[h] # StatusOK}
\* The first host of a non-empty set of hosts.
FirstOf(S) == CHOOSE h \in S : \A g \in S : h <= g

\* C9 as claimed: with a kill user configured, requests go out in cluster
\* order, one per host; once killQueries has returned, the hosts contacted
\* are the prefix ending at the first host that fails (transport error or
\* non-200), or all hosts if none fails, and the result is an error about
\* that first failing host, or nil if none fails.
C9_StopsAtFirstFailingHost ==
    killQueryUserName # "" =>
        /\ \A k \in 1..Len(sent) : sent[k] = k - 1
        /\ kpc = "done" =>
              IF FailingHosts = {}
              THEN sent = HostsBefore(NHosts) /\ kerr = NoKillErr
              ELSE /\ sent = HostsUpTo(FirstOf(FailingHosts))
                   /\ kerr.kind \in {"execute", "status"}
                   /\ kerr.host = FirstOf(FailingHosts)

\* C9 amended: the loop stops at the first host that fails or for which no
\* request can be created; the hosts contacted are those before it, and it
\* too unless its request could not be created; the result is an error about
\* that host, or nil (with every host contacted) if there is none.
C9_StopsAtFirstStoppingHost ==
    killQueryUserName # "" =>
        /\ \A k \in 1..Len(sent) : sent[k] = k - 1
        /\ StoppingHosts # {} => Len(sent) <= FirstOf(StoppingHosts) + 1
        /\ kpc = "done" =>
              IF StoppingHosts = {}
              THEN sent = HostsBefore(NHosts) /\ kerr = NoKillErr
              ELSE LET m == FirstOf(StoppingHosts)
                   IN  /\ kerr.host = m
                       /\ hostState[m] = "unparsable" =>
                             sent = HostsBefore(m) /\ kerr.kind = "create"
                       /\ hostState[m] = "unreachable" =>
                             sent = HostsUpTo(m) /\ kerr.kind = "execute"
                       /\ hostState[m] \notin {"unparsable", "unreachable"} =>
                             sent = HostsUpTo(m) /\ kerr.kind = "status"

\* C9's case: three hosts, the second answers with a non-200 status, the
\* third is down; killQueries has returned.
C9_Witness ==
    /\ killQueryUserName # ""
    /\ kpc = "done"
    /\ NHosts = 3
    /\ hostState[0] = StatusOK
    /\ hostState[1] = "500"
    /\ hostState[2] = "unreachable"
    /\ sent = <<0, 1>>

\* C10: with no kill user configured, killQueries returns nil and calls
\* client.Do for no host, whatever the states of the hosts.
C10_NoKillUserNoRequest ==
    killQueryUserName = "" =>
        /\ sent = <<>>
        /\ kpc # "loop"
        /\ kpc = "done" => kerr = NoKillErr

\* C10's case: no kill user, killQueries has returned, and no host would
\* have answered 200.
C10_Witness ==
    /\ killQueryUserName = ""
    /\ kpc = "done"
    /\ \A h \in DOMAIN hostState : hostState[h] # StatusOK

\* Request r's post-increment count uq exceeds its user's ceiling.
UserExceeded(r, uq) ==
    maxU[scope[r].user] > 0 /\ Gt(uq, FromNat(maxU[scope[r].user]))
\* Request r's post-increment count cq exceeds its cluster user's ceiling.
ClusterUserExceeded(r, cq) ==
    maxCU[scope[r].clusterUser] > 0 /\ Gt(cq, FromNat(maxCU[scope[r].clusterUser]))

\* Request r performs its increment of its user's counter in this step.
IncrementsUser(r) == incs'[r].user = incs[r].user + 1
\* Request r performs its increment of its cluster user's counter in this step.
IncrementsClusterUser(r) == incs'[r].clusterUser = incs[r].clusterUser + 1
\* scope.inc of request r comes to its ceiling tests in this step.
Decides(r) == pc[r] = "incHost" /\ pc'[r] # "incHost"

\* C11: uq and cq are the values this admit's own increments left in the
\* counters; scope.inc ends with a limit error exactly if uq exceeds a user
\* ceiling > 0 or cq exceeds a cluster-user ceiling > 0 (a count equal to
\* the ceiling is admitted); it returns nil exactly if it found no error.
C11_RejectedIffOwnCountExceeds ==
    [][\A r \in Requests :
          /\ IncrementsUser(r) => loc'[r].uq = userCnt'[scope[r].user]
          /\ IncrementsClusterUser(r) => loc'[r].cq = cuCnt'[scope[r].clusterUser]
          /\ Decides(r) =>
                /\ (err'[r] # NoErr) <=>
                       (UserExceeded(r, loc[r].uq) \/ ClusterUserExceeded(r, loc[r].cq))
                /\ pc'[r] = (IF err'[r] # NoErr THEN "rollback" ELSE "admitted")
          /\ pc'[r] = "failed" => err'[r] # NoErr /\ err'[r] = err[r]
          /\ pc'[r] = "admitted" => err'[r] = NoErr]_vars

\* C11's case: under a user ceiling (cluster user unlimited) one admit got
\* the count equal to the ceiling and was admitted, another got one more
\* and failed.
C11_Witness ==
    \E r, q \in Requests :
        /\ maxCU[scope[r].clusterUser] = 0
        /\ maxU[scope[r].user] = 1
        /\ pc[r] = "admitted"
        /\ pc[q] = "failed"
        /\ err[q] = [kind |-> "user", limit |-> 1]
        /\ userCnt[scope[r].user] = One

\* C12 as claimed: a limit error names an entity whose ceiling this admit's
\* count exceeded, with that ceiling; it names the user whenever the user's
\* ceiling is exceeded and the cluster user whenever the cluster user's is.
C12_ErrorNamesEveryExceeded ==
    [][\A r \in Requests :
          (Decides(r) /\ err'[r] # NoErr) =>
              /\ err'[r].kind \in {"user", "clusterUser"}
              /\ UserExceeded(r, loc[r].uq) =>
                    err'[r] = [kind |-> "user", limit |-> maxU[scope[r].user]]
              /\ ClusterUserExceeded(r, loc[r].cq) =>
                    err'[r] = [kind |-> "clusterUser",
                               limit |-> maxCU[scope[r].clusterUser]]]_vars

\* C12 amended: a limit error names one entity whose ceiling this admit's
\* count exceeded, with that ceiling: the cluster user whenever the cluster
\* user's ceiling is exceeded, the user only when the user's alone is.
C12_ErrorNamesClusterUserFirst ==
    [][\A r \in Requests :
          (Decides(r) /\ err'[r] # NoErr) =>
              /\ err'[r].kind \in {"user", "clusterUser"}
              /\ ClusterUserExceeded(r, loc[r].cq) =>
                    err'[r] = [kind |-> "clusterUser",
                               limit |-> maxCU[scope[r].clusterUser]]
              /\ (UserExceeded(r, loc[r].uq) /\ ~ClusterUserExceeded(r, loc[r].cq)) =>
                    err'[r] = [kind |-> "user", limit |-> maxU[scope[r].user]]]_vars

\* C12's case: an admit whose counts exceed both ceilings (both 1) is about
\* to roll back with the error naming the cluster user.
C12_Witness ==
    \E r \in Requests :
        /\ pc[r] = "rollback"
        /\ maxU[scope[r].user] = 1
        /\ maxCU[scope[r].clusterUser] = 1
        /\ userCnt[scope[r].user] = FromNat(2)
        /\ cuCnt[scope[r].clusterUser] = FromNat(2)
        /\ err[r] = [kind |-> "clusterUser", limit |-> 1]


\* Position of host h in getHost's scan order start, start + 1, ...
\* (wrapping), where start is the advanced cursor modulo len(c.hosts).
ScanPos(h) == (h + NHosts - ModU32(nextIdx, NHosts)) % NHosts

\* C13: when the loads stay put and none is 0, getHost returns a host of
\* least load and, among the hosts of least load, the first in scan order
\* start, start + 1, ... with start the advanced cursor modulo len(c.hosts).
C13_ReturnsFirstLeastLoaded ==
    \A r \in Requests :
        (pc[r] = "incUser" /\ \A h \in DOMAIN hostCnt : hostCnt[h] # Zero) =>
            \A h \in DOMAIN hostCnt :
                /\ ~Lt(hostCnt[h], hostCnt[scope[r].host])
                /\ hostCnt[h] = hostCnt[scope[r].host] =>
                       ScanPos(scope[r].host) <= ScanPos(h)

\* C13's case: MaxHosts busy hosts, the least load is shared by two hosts,
\* neither of them the start, and getHost has returned the second host in
\* scan order, leaving a host that comes later with the same load.
C13_Witness ==
    \E r \in Requests :
        /\ pc[r] = "incUser"
        /\ NHosts = MaxHosts
        /\ \A h \in DOMAIN hostCnt : hostCnt[h] # Zero
        /\ ScanPos(scope[r].host) = 1
        /\ \E h \in DOMAIN hostCnt :
              /\ ScanPos(h) > 1
              /\ hostCnt[h] = hostCnt[scope[r].host]


\* C14 as claimed: within one admit the host's counter is incremented
\* before the user's and the user's before the cluster user's, so no state
\* shows an admit that has incremented the user's or the cluster user's
\* counter but not yet the host's.
C14_HostCountedFirst ==
    \A r \in Requests :
        /\ incs[r].user <= incs[r].host
        /\ incs[r].clusterUser <= incs[r].user

\* C14 amended: within one admit the host is selected first, then the
\* user's counter is incremented, then the cluster user's, and the host's
\* counter last; no state shows an admit that has incremented the host's
\* counter but not yet the user's and the cluster user's.
C14_HostCountedLast ==
    \A r \in Requests :
        /\ incs[r].host <= incs[r].clusterUser
        /\ incs[r].clusterUser <= incs[r].user
        /\ incs[r].user <= 1
        /\ pc[r] \in {"idle", "getHost", "first", "scan", "incUser"} => incs[r] = NoOps
        /\ pc[r] = "incClusterUser" =>
               incs[r] = [user |-> 1, clusterUser |-> 0, host |-> 0]
        /\ pc[r] = "incHost" =>
               incs[r] = [user |-> 1, clusterUser |-> 1, host |-> 0]
        /\ pc[r] \in {"admitted", "rollback"} =>
               incs[r] = [user |-> 1, clusterUser |-> 1, host |-> 1]

\* C14's case: one admit has incremented the user's and the cluster user's
\* counter and not yet its host's, every load still reads 0, and another
\* admit's getHost is about to read a load.
C14_Witness ==
    \E r, q \in Requests :
        /\ pc[r] = "incHost"
        /\ userCnt[scope[r].user] = One
        /\ cuCnt[scope[r].clusterUser] = One
        /\ \A h \in DOMAIN hostCnt : hostCnt[h] = Zero
        /\ pc[q] = "first"


\* ------------------------------------------------------------------ fair scheduling

\* Clusters of 1..NumHosts hosts, all idle or all running one query of a
\* scope that stays admitted throughout; user u1 is unlimited or limited to
\* one query, the cluster user is unlimited.
InitFair ==
    /\ maxU \in {f \in [Users -> {0, 1}] : f["u2"] = 0}
    /\ maxCU = [c \in ClusterUsers |-> 0]
    /\ userCnt = [u \in Users |-> Zero]
    /\ cuCnt = [c \in ClusterUsers |-> Zero]
    /\ \E n \in 1..NumHosts : \E l \in {Zero, One} : hostCnt = [h \in 0..(n - 1) |-> l]
    /\ nextIdx = AllOnes
    /\ scopeId = AllOnes
    /\ InitRequests(NumReq)
    /\ start = [user |-> userCnt, clusterUser |-> cuCnt, host |-> hostCnt]
    /\ picked = <<>>
    /\ InitNoKill

\* A step of request r's goroutine inside newScope or scope.inc (with the
\* rollback scope.inc calls); releasing is up to the handler.
AdmitStep(r) == InAdmit(r) /\ Step(r)

\* The goroutine scheduler lets every goroutine that can take a step take
\* one eventually.
SpecFair == InitFair /\ [][Next]_vars /\ \A r \in 1..NumReq : WF_vars(AdmitStep(r))

\* Number of own steps request r has taken since newScope was entered, at
\* the most (getHost's loop may end early).
Rank(r) ==
    CASE pc[r] = "idle" -> 0
      [] pc[r] = "getHost" -> 1
      [] pc[r] = "first" -> 2
      [] pc[r] = "scan" -> 3 + ((loc[r].i + NHosts - loc[r].idx - 1) % NHosts)
      [] pc[r] = "incUser" -> NHosts + 2
      [] pc[r] = "incClusterUser" -> NHosts + 3
      [] pc[r] = "incHost" -> NHosts + 4
      [] pc[r] \in {"admitted", "rollback"} -> NHosts + 5
      [] pc[r] = "decUser" -> NHosts + 6
      [] pc[r] = "decClusterUser" -> NHosts + 7
      [] pc[r] \in {"failed", "released"} -> NHosts + 8

\* Request r is inside newScope, scope.inc or scope.dec.
InOperation(r) == pc[r] \notin {"idle", "admitted", "failed", "released"}

\* C15: no operation waits: inside an operation a request's next step is
\* enabled whatever the others do, and every own step brings it nearer the
\* end, so newScope with scope.inc takes at most len(c.hosts) + 8 own steps
\* and scope.dec 3; getHost's loop reads a host other than the first one
\* only, so at most len(c.hosts) loads in all, also when len(c.hosts) = 1;
\* under fair scheduling every started admit returns nil or a limit error.
C15_EveryAdmitReturns ==
    /\ [](\A r \in 1..NumReq :
              /\ InOperation(r) => ENABLED Step(r)
              /\ pc[r] = "scan" => loc[r].i # loc[r].idx /\ NHosts > 1)
    /\ [][\A r \in 1..NumReq :
              (pc'[r] # pc[r] \/ loc'[r] # loc[r]) => Rank(r)' > Rank(r)]_vars
    /\ \A r \in 1..NumReq : (pc[r] = "getHost") ~> AdmitReturned(r)

\* C15's case: on a cluster of NumHosts busy hosts, where getHost reads
\* every load, one admit has returned nil and another a limit error.
C15_Witness ==
    /\ NHosts = NumHosts
    /\ \A h \in DOMAIN hostCnt : start.host[h] # Zero
    /\ \E r, q \in Requests : pc[r] = "admitted" /\ pc[q] = "failed"


\* ------------------------------------------------------------------ a scope released twice

\* As Init, with one request more: request 1, whose scope the handler
\* releases twice.
InitDouble ==
    /\ maxU \in {f \in [Users -> Ceilings] : f["u2"] = 0}
    /\ maxCU \in [ClusterUsers -> Ceilings]
    /\ userCnt = [u \in Users |-> Zero]
    /\ cuCnt = [c \in ClusterUsers |-> Zero]
    /\ hostCnt = [h \in 0..(NumHosts - 1) |-> Zero]
    /\ nextIdx = AllOnes
    /\ scopeId = AllOnes
    /\ InitRequests(NumReq + 1)
    /\ start = [user |-> userCnt, clusterUser |-> cuCnt, host |-> hostCnt]
    /\ picked = <<>>
    /\ InitNoKill

\* The handler calls scope.dec on the released scope of request r once
\* more: s.host.dec() is its first step.
ReleaseAgain(r) ==
    /\ pc[r] = "released"
    /\ decs[r].host = 1
    /\ hostCnt' = [hostCnt EXCEPT ![scope[r].host] = QcDec(@)]
    /\ decs' = [decs EXCEPT ![r].host = @ + 1]
    /\ pc' = [pc EXCEPT ![r] = "decUser"]
    /\ UNCHANGED <<config, userCnt, cuCnt, nextIdx, scopeId, scope, loc, err, incs, start, picked>>

\* Request 1's scope has been released twice.
DoubleReleased == pc[1] = "released" /\ decs[1].clusterUser = 2

\* Request 1 is admitted and released twice while nothing else runs; from
\* then on the other requests are admitted and released as in Next.
NextDouble ==
    \E r \in Requests :
        \/ Admit(r, "u1", "cu1") /\ (r = 1 \/ DoubleReleased)
        \/ Step(r)
        \/ r = 1 /\ ReleaseAgain(r)

SpecDouble == InitDouble /\ [][NextDouble]_vars

\* The requests, other than the one released twice, that hold counter x of
\* kind f.
LaterHolders(f, x) == Holders(f, x) \ {1}
\* The scopes with user u, other than request 1's, admitted and not released.
AdmittedUnreleased(u) ==
    {r \in Requests \ {1} : scope[r].user = u /\ pc[r] = "admitted"}

\* C16 as claimed: the second release of a scope wraps the counters it
\* decrements at 0 to 2^32 - 1, and from then on every admit on a user or
\* cluster user with a ceiling > 0 is rejected with a limit error.
C16_DeniedAfterDoubleRelease ==
    /\ (DoubleReleased /\ \A r \in Requests \ {1} : pc[r] = "idle") =>
           userCnt["u1"] = AllOnes /\ cuCnt["cu1"] = AllOnes
    /\ \A r \in Requests \ {1} :
           (DoubleReleased /\ AdmitReturned(r) /\ (maxU["u1"] > 0 \/ maxCU["cu1"] > 0)) =>
               err[r] # NoErr

\* C16 amended: the second release of a scope wraps the counters it
\* decrements at 0 to 2^32 - 1; from then on each of them reads one less
\* (modulo 2^32) than the number of scopes that have incremented and not yet
\* decremented it, so an admit that runs alone is admitted (its count wraps
\* back to 0) and a ceiling C > 0 lets C + 1 scopes be admitted at a time.
C16_OneLessAfterDoubleRelease ==
    /\ (DoubleReleased /\ \A r \in Requests \ {1} : pc[r] = "idle") =>
           userCnt["u1"] = AllOnes /\ cuCnt["cu1"] = AllOnes
    /\ DoubleReleased =>
           /\ userCnt["u1"] =
                  AddUint32(AllOnes, FromNat(Cardinality(LaterHolders("user", "u1"))))
           /\ cuCnt["cu1"] =
                  AddUint32(AllOnes, FromNat(Cardinality(LaterHolders("clusterUser", "cu1"))))
           /\ \A h \in DOMAIN hostCnt :
                  hostCnt[h] = AddUint32(IF h = scope[1].host THEN AllOnes ELSE Zero,
                                         FromNat(Cardinality(LaterHolders("host", h))))
    /\ \A r \in Requests \ {1} :
           (\A q \in Requests \ {1, r} : pc[q] = "idle") => err[r] = NoErr
    /\ maxU["u1"] > 0 => Cardinality(AdmittedUnreleased("u1")) <= maxU["u1"] + 1

\* C16's case: after the double release, under a ceiling of 1 for the user
\* and none for the cluster user, two scopes are admitted at a time and the
\* user's counter reads 1.
C16_Witness ==
    /\ DoubleReleased
    /\ maxU["u1"] = 1
    /\ maxCU["cu1"] = 0
    /\ Cardinality(AdmittedUnreleased("u1")) = 2
    /\ userCnt["u1"] = One


\* The scopes admitted (scope.inc returned nil) that hold counter x of kind
\* f: a scope counts as released for a counter once its release has
\* decremented that counter.
Live(f, x) ==
    {r \in Requests : /\ scope[r][f] = x
                      /\ AdmitReturned(r)
                      /\ err[r] = NoErr
                      /\ incs[r][f] = 1
                      /\ decs[r][f] = 0}

\* C17: for a user or cluster user with ceiling C > 0, in every reachable
\* state at most C scopes are admitted and not yet released.
C17_AdmittedWithinCeiling ==
    /\ \A u \in Users :
          maxU[u] > 0 => Cardinality(Live("user", u)) <= maxU[u]
    /\ \A c \in ClusterUsers :
          maxCU[c] > 0 => Cardinality(Live("clusterUser", c)) <= maxCU[c]

\* C17's case: the user's counter stands above the ceiling of 1 because an
\* admit is in flight, and one scope, as many as the ceiling, is admitted.
C17_Witness ==
    \E u \in Users :
        /\ maxU[u] = 1
        /\ userCnt[u] = FromNat(2)
        /\ Cardinality(Live("user", u)) = 1
        /\ \E r \in Requests : pc[r] = "incClusterUser"

\* C18 as claimed: an admit's count exceeds a ceiling C > 0, so that it is
\* rejected, only if at the moment of its increment at least C scopes of
\* that user or cluster user are admitted and not yet released.
C18_RejectedOnlyByAdmitted ==
    [][\A r \in Requests :
          /\ (IncrementsUser(r) /\ UserExceeded(r, loc'[r].uq)) =>
                 Cardinality(Live("user", scope[r].user)) >= maxU[scope[r].user]
          /\ (IncrementsClusterUser(r) /\ ClusterUserExceeded(r, loc'[r].cq)) =>
                 Cardinality(Live("clusterUser", scope[r].clusterUser))
                     >= maxCU[scope[r].clusterUser]]_vars

\* C18 amended: an admit is rejected only if its own count exceeds a
\* ceiling C > 0, and its count exceeds C only if at the moment of its
\* increment at least C other scopes have incremented that counter and not
\* yet decremented it, whether admitted or still in flight (among them
\* admits that will fail and have not yet rolled back).
C18_RejectedOnlyByHolders ==
    [][\A r \in Requests :
          /\ (Decides(r) /\ err'[r] # NoErr) =>
                 (UserExceeded(r, loc[r].uq) \/ ClusterUserExceeded(r, loc[r].cq))
          /\ (IncrementsUser(r) /\ UserExceeded(r, loc'[r].uq)) =>
                 Cardinality(Holders("user", scope[r].user) \ {r})
                     >= maxU[scope[r].user]
          /\ (IncrementsClusterUser(r) /\ ClusterUserExceeded(r, loc'[r].cq)) =>
                 Cardinality(Holders("clusterUser", scope[r].clusterUser) \ {r})
                     >= maxCU[scope[r].clusterUser]]_vars

\* C18's case: under a user ceiling of 1 an admit is rolling back with the
\* user's limit error while no scope is admitted: the other request, whose
\* increment it counted, is still in flight.
C18_Witness ==
    \E r, q \in Requests :
        /\ maxU[scope[r].user] = 1
        /\ pc[r] = "rollback"
        /\ err[r].kind = "user"
        /\ pc[q] \in {"incClusterUser", "incHost"}
        /\ Live("user", scope[r].user) = {}

\* Sum modulo 2^32 of the counters f[x], x in S.
RECURSIVE SumUint32(_, _)
SumUint32(f, S) ==
    IF S = {}
    THEN Zero
    ELSE LET x == CHOOSE y \in S : TRUE
         IN  AddUint32(f[x], SumUint32(f, S \ {x}))

\* No admit and no release is in flight.
Quiet == \A r \in Requests : pc[r] \in {"idle", "admitted", "failed", "released"}

\* Counter x of kind f is held by every admitted, not yet released scope
\* of x and, beyond those, by no more scopes than admits are in flight.
AheadByInFlight(f, x) ==
    /\ Live(f, x) \subseteq Holders(f, x)
    /\ Cardinality(Holders(f, x)) - Cardinality(Live(f, x))
           <= Cardinality({r \in Requests : InAdmit(r)})

\* C19: every counter equals the number of scopes that have incremented and
\* not yet decremented it, so it exceeds the number of admitted, not yet
\* released scopes by at most the number of admits in flight; with no admit
\* or release in flight the host counters and the cluster-user counters
\* each sum to the number of admitted, not yet released scopes.
C19_CountersMatchScopes ==
    /\ \A r \in Requests : \A f \in {"user", "clusterUser", "host"} :
          incs[r][f] - decs[r][f] \in {0, 1}
    /\ \A u \in Users : userCnt[u] = FromNat(Cardinality(Holders("user", u)))
    /\ \A c \in ClusterUsers :
          cuCnt[c] = FromNat(Cardinality(Holders("clusterUser", c)))
    /\ \A h \in DOMAIN hostCnt : hostCnt[h] = FromNat(Cardinality(Holders("host", h)))
    /\ \A u \in Users : AheadByInFlight("user", u)
    /\ \A c \in ClusterUsers : AheadByInFlight("clusterUser", c)
    /\ \A h \in DOMAIN hostCnt : AheadByInFlight("host", h)
    /\ Quiet =>
          LET n == FromNat(Cardinality({r \in Requests : pc[r] = "admitted"}))
          IN  /\ SumUint32(hostCnt, DOMAIN hostCnt) = n
              /\ SumUint32(cuCnt, ClusterUsers) = n

\* C19's case: nothing is in flight, one scope has been released and one is
\* admitted, and the counters of its host and its cluster user read 1.
C19_Witness ==
    /\ Quiet
    /\ \E r, q \in Requests :
          /\ pc[r] = "released"
          /\ pc[q] = "admitted"
          /\ hostCnt[scope[q].host] = One
          /\ cuCnt[scope[q].clusterUser] = One

====
